---- MODULE Spec2Model ----
(***************************************************************************)
(* duniya-mausam backend (src/backend/app.py): the GET /environment        *)
(* handler and the two fetchers it composes, get_weather and get_aqi.      *)
(*                                                                         *)
(* One behaviour of Spec is one request: the handler reads `city`, calls   *)
(* the geocoding, weather and air-quality upstreams in the order the code  *)
(* does, and produces one response.  The upstream replies are inputs: each *)
(* call draws its reply from a bounded set of JSON shapes.  SpecAqi is     *)
(* get_aqi called on its own with any (city, lat, lon).                    *)
(*                                                                         *)
(* Python values:                                                          *)
(*   None / a missing key      None == <<>>,  a present value x is <<x>>   *)
(*   a str (the city)          a sequence of one-character strings         *)
(*   a JSON reply              a record with a `kind` field                *)
(*   an uncaught exception     the response 500 (handler) or pc = "raised" *)
(***************************************************************************)
EXTENDS Integers, Sequences, FiniteSets, TLC

VARIABLES pc, city, geo_data, weather_data, aqi_data, lat, lon, weather, aqi,
          calls, response

vars == <<pc, city, geo_data, weather_data, aqi_data, lat, lon, weather, aqi,
          calls, response>>

(***************************************************************************)
(* Bounds of the input sets.                                               *)
(***************************************************************************)
MaxCityLen == 2
MaxCoord == 1

\* `limit=1` of the geocoding request: a reply lists at most one candidate.
GeoLimit == 1

(***************************************************************************)
(* Optional values.                                                        *)
(***************************************************************************)
None == <<>>
Some(x) == <<x>>
Opt(S) == {None} \cup {Some(x) : x \in S}

EmptyObj == [k \in {} |-> None]

(***************************************************************************)
(* Input domains.                                                          *)
(***************************************************************************)
Chars == {"a", " "}
Strings == UNION {[1..n -> Chars] : n \in 0..MaxCityLen}
CityParams == Opt(Strings)

CoordVals == (0 - MaxCoord)..MaxCoord
Candidates == [lat : CoordVals, lon : CoordVals]

\* JSON null as each upstream's reply; also the value of the reply variables
\* before the call is made.
NullGeo == [kind |-> "null", items |-> <<>>, keys |-> {}]
NullWeather == [kind |-> "null", main |-> None, weather |-> None]
NullAqi == [kind |-> "null", status |-> None, data |-> None]

\* Geocoding replies: JSON null, a list of candidates, {} or an error object.
GeoResponses ==
    {NullGeo}
    \cup {[kind |-> "list", items |-> s, keys |-> {}] :
            s \in UNION {[1..n -> Candidates] : n \in 0..GeoLimit}}
    \cup {[kind |-> "object", items |-> <<>>, keys |-> k] :
            k \in {{}, {"cod", "message"}}}

Temps == {0, 15}
Humidities == {70}
Descriptions == {"clear sky"}

\* Weather replies: JSON null, or an object with or without `main` (with or
\* without temp / humidity) and with or without a `weather` list.
WeatherResponses ==
    {NullWeather}
    \cup [kind : {"object"},
          main : Opt([temp : Opt(Temps), humidity : Opt(Humidities)]),
          weather : Opt({<<>>} \cup {<<[description |-> d]>> : d \in Opt(Descriptions)})]

Codes == {"pm25", "o3"}
IaqiValues == {0, 42}
IaqiMaps == UNION {[cs -> [v : Opt(IaqiValues)]] : cs \in SUBSET Codes}

\* Air-quality replies: JSON null, or an object with or without `status` and
\* with or without a `data` block.
AqiResponses ==
    {NullAqi}
    \cup [kind : {"object"},
          status : Opt({"ok", "error"}),
          data : Opt([aqi : Opt({42}), dominentpol : Opt({"pm25"}),
                      iaqi : Opt(IaqiMaps)])]

(***************************************************************************)
(* Python truthiness.                                                      *)
(***************************************************************************)
\* `not city`: None and "" are falsy, every other str is truthy.
StrTruthy(c) == c # None /\ c[1] # <<>>

\* `lat` / `lon` as a condition: None and 0 are falsy.
NumTruthy(n) == n # None /\ n[1] # 0

\* Mutant of GeoFalsy: `if geo_data is None`.
GeoFalsy_NullOnly(g) == g.kind = "null"

\* `not geo_data`: null, [] and {} are falsy.
GeoFalsy(g) ==
    \/ g.kind = "null"
    \/ g.kind = "list" /\ g.items = <<>>
    \/ g.kind = "object" /\ g.keys = {}

(***************************************************************************)
(* get_weather                                                             *)
(***************************************************************************)
\* geo_data[0] raises on anything but a non-empty list: KeyError on a dict,
\* IndexError on [], TypeError on None.
GeoSubscriptRaises(g) == ~(g.kind = "list" /\ g.items # <<>>)

\* `not weather_data or "main" not in weather_data`
WeatherAbsent(w) ==
    \/ w.kind = "null"
    \/ w.main = None /\ w.weather = None
    \/ w.main = None

\* The dict literal of lines 30-34 raises KeyError / IndexError when one of
\* the fields it reads is missing.
WeatherRaises(w) ==
    /\ ~WeatherAbsent(w)
    /\ IF w.main[1].temp = None \/ w.main[1].humidity = None THEN TRUE
       ELSE IF w.weather = None THEN TRUE
       ELSE IF w.weather[1] = <<>> THEN TRUE
       ELSE w.weather[1][1].description = None

\* The first element of get_weather's result on a reply it can read.
WeatherSnapshot(w) ==
    IF WeatherAbsent(w) THEN None
    ELSE Some([temperature |-> w.main[1].temp[1],
               humidity |-> w.main[1].humidity[1],
               weather |-> w.weather[1][1].description[1]])

(***************************************************************************)
(* get_aqi                                                                 *)
(***************************************************************************)
\* Mutant of Feed: the city name tried before the coordinates.
Feed_CityFirst(c, la, lo) ==
    IF StrTruthy(c) THEN Some(<<"name", c[1]>>)
    ELSE IF NumTruthy(la) /\ NumTruthy(lo) THEN Some(<<"geo", la[1], lo[1]>>)
    ELSE None

\* The locator of lines 39-44; None is the `return None` branch.
Feed(c, la, lo) ==
    IF NumTruthy(la) /\ NumTruthy(lo) THEN Some(<<"geo", la[1], lo[1]>>)
    ELSE IF StrTruthy(c) THEN Some(<<"name", c[1]>>)
    ELSE None

\* `not aqi_data or aqi_data.get("status") != "ok"`
AqiAbsent(a) ==
    \/ a.kind = "null"
    \/ a.status = None /\ a.data = None
    \/ a.status # Some("ok")

\* aqi_data["data"] raises KeyError when the key is missing; data.get raises
\* when data is null.
AqiRaises(a) == ~AqiAbsent(a) /\ a.data = None

\* {k: v.get("v") for k, v in (data.get("iaqi") or {}).items()}
Pollutants(d) ==
    IF d.iaqi = None THEN EmptyObj
    ELSE [k \in DOMAIN d.iaqi[1] |-> d.iaqi[1][k].v]

\* get_aqi's result on a reply it can read.
AqiSnapshot(a) ==
    IF AqiAbsent(a) THEN None
    ELSE Some([aqi_us |-> a.data[1].aqi,
               dominant_pollutant |-> a.data[1].dominentpol,
               pollutants |-> Pollutants(a.data[1])])

(***************************************************************************)
(* environment_data                                                        *)
(***************************************************************************)
NoResponse == [status |-> 0, body |-> EmptyObj]
BadRequest == [status |-> 400, body |-> [error |-> "City parameter is required"]]
NotFound == [status |-> 404, body |-> [error |-> "City not found"]]
\* An exception that leaves the view function: Flask answers 500.
ServerError == [status |-> 500, body |-> [exception |-> "unhandled"]]

\* Mutant of CityMissing: `if city is None`.
CityMissing_IsNone(c) == c = None

\* Mutant of CityMissing: `if city == ""`.
CityMissing_EmptyOnly(c) == c = Some(<<>>)

\* `not city`
CityMissing(c) == ~StrTruthy(c)

\* `not lat or not lon`
CoordsMissing(la, lo) == ~NumTruthy(la) \/ ~NumTruthy(lo)

\* `x if x else {}`: both snapshots have three keys, so only None is falsy.
OrEmpty(o) == IF o = None THEN EmptyObj ELSE o[1]

Merged(c, w, a) ==
    [status |-> 200,
     body |-> [city |-> c[1], weather_data |-> OrEmpty(w), aqi_data |-> OrEmpty(a)]]

\* f"{city}": a str is inserted as it is, None as the text None.
Fmt(c) == IF c = None THEN <<"N", "o", "n", "e">> ELSE c[1]

GeoCall(c) == [api |-> "geocoding", arg |-> Fmt(c)]
WeatherCall(la, lo) == [api |-> "weather", arg |-> <<la, lo>>]
AqiCall(f) == [api |-> "aqi", arg |-> f]

Init ==
    /\ pc = "start"
    /\ city \in CityParams
    /\ geo_data = NullGeo
    /\ weather_data = NullWeather
    /\ aqi_data = NullAqi
    /\ lat = None
    /\ lon = None
    /\ weather = None
    /\ aqi = None
    /\ calls = <<>>
    /\ response = NoResponse

\* Lines 64-67: no city, 400.
RejectRequest ==
    /\ pc = "start"
    /\ CityMissing(city)
    /\ response' = BadRequest
    /\ pc' = "done"
    /\ UNCHANGED <<city, geo_data, weather_data, aqi_data, lat, lon, weather, aqi, calls>>

\* Lines 70, 16-17: the geocoding request and its reply.
CallGeocoding ==
    /\ pc = "start"
    /\ ~CityMissing(city)
    /\ calls' = Append(calls, GeoCall(city))
    /\ \E g \in GeoResponses : geo_data' = g
    /\ pc' = "geocoded"
    /\ UNCHANGED <<city, weather_data, aqi_data, lat, lon, weather, aqi, response>>

\* Lines 18-19, 71-72: nothing geocoded, get_weather returns three Nones and
\* the handler answers 404.
GeoNoMatch ==
    /\ pc = "geocoded"
    /\ GeoFalsy(geo_data)
    /\ CoordsMissing(None, None)
    /\ response' = NotFound
    /\ pc' = "done"
    /\ UNCHANGED <<city, geo_data, weather_data, aqi_data, lat, lon, weather, aqi, calls>>

\* Line 21 on a reply that is not a list: the exception leaves the handler.
GeoRaise ==
    /\ pc = "geocoded"
    /\ ~GeoFalsy(geo_data)
    /\ GeoSubscriptRaises(geo_data)
    /\ response' = ServerError
    /\ pc' = "done"
    /\ UNCHANGED <<city, geo_data, weather_data, aqi_data, lat, lon, weather, aqi, calls>>

\* Lines 21-25: the first candidate's coordinates, the weather request and
\* its reply.
CallWeather ==
    /\ pc = "geocoded"
    /\ ~GeoFalsy(geo_data)
    /\ ~GeoSubscriptRaises(geo_data)
    /\ lat' = Some(geo_data.items[1].lat)
    /\ lon' = Some(geo_data.items[1].lon)
    /\ calls' = Append(calls, WeatherCall(geo_data.items[1].lat, geo_data.items[1].lon))
    /\ \E w \in WeatherResponses : weather_data' = w
    /\ pc' = "weathered"
    /\ UNCHANGED <<city, geo_data, aqi_data, weather, aqi, response>>

\* Lines 30-34 on a reply with `main` and a missing field: the exception
\* leaves the handler.
WeatherRaise ==
    /\ pc = "weathered"
    /\ WeatherRaises(weather_data)
    /\ response' = ServerError
    /\ pc' = "done"
    /\ UNCHANGED <<city, geo_data, weather_data, aqi_data, lat, lon, weather, aqi, calls>>

\* Lines 27-34, 71-72: get_weather returns, the handler finds a falsy
\* coordinate and answers 404.
CoordsNotFound ==
    /\ pc = "weathered"
    /\ ~WeatherRaises(weather_data)
    /\ CoordsMissing(lat, lon)
    /\ weather' = WeatherSnapshot(weather_data)
    /\ response' = NotFound
    /\ pc' = "done"
    /\ UNCHANGED <<city, geo_data, weather_data, aqi_data, lat, lon, aqi, calls>>

\* Lines 27-34, 75, 39-47: get_weather returns, the handler calls get_aqi,
\* which builds its locator and sends the air-quality request.
CallAqi ==
    /\ pc = "weathered"
    /\ ~WeatherRaises(weather_data)
    /\ ~CoordsMissing(lat, lon)
    /\ Feed(city, lat, lon) # None
    /\ weather' = WeatherSnapshot(weather_data)
    /\ calls' = Append(calls, AqiCall(Feed(city, lat, lon)[1]))
    /\ \E a \in AqiResponses : aqi_data' = a
    /\ pc' = "aqi_replied"
    /\ UNCHANGED <<city, geo_data, weather_data, lat, lon, aqi, response>>

\* Line 52 on a status-ok reply without `data`: the exception leaves the
\* handler.
AqiRaise ==
    /\ pc = "aqi_replied"
    /\ AqiRaises(aqi_data)
    /\ response' = ServerError
    /\ pc' = "done"
    /\ UNCHANGED <<city, geo_data, weather_data, aqi_data, lat, lon, weather, aqi, calls>>

\* Lines 49-59, 77-81: get_aqi returns and the handler answers 200.
Respond ==
    /\ pc = "aqi_replied"
    /\ ~AqiRaises(aqi_data)
    /\ aqi' = AqiSnapshot(aqi_data)
    /\ response' = Merged(city, weather, AqiSnapshot(aqi_data))
    /\ pc' = "done"
    /\ UNCHANGED <<city, geo_data, weather_data, aqi_data, lat, lon, weather, calls>>

Next ==
    \/ RejectRequest
    \/ CallGeocoding
    \/ GeoNoMatch
    \/ GeoRaise
    \/ CallWeather
    \/ WeatherRaise
    \/ CoordsNotFound
    \/ CallAqi
    \/ AqiRaise
    \/ Respond

Spec == Init /\ [][Next]_vars

(***************************************************************************)
(* get_aqi called on its own, with any city, lat and lon.                  *)
(***************************************************************************)
InitAqi ==
    /\ pc = "aqi_start"
    /\ city \in CityParams
    /\ lat \in Opt(CoordVals)
    /\ lon \in Opt(CoordVals)
    /\ geo_data = NullGeo
    /\ weather_data = NullWeather
    /\ aqi_data = NullAqi
    /\ weather = None
    /\ aqi = None
    /\ calls = <<>>
    /\ response = NoResponse

\* Lines 43-44: no locator, None is returned and nothing is requested.
GetAqiNoLocator ==
    /\ pc = "aqi_start"
    /\ Feed(city, lat, lon) = None
    /\ aqi' = None
    /\ pc' = "returned"
    /\ UNCHANGED <<city, geo_data, weather_data, aqi_data, lat, lon, weather, calls, response>>

\* Lines 39-47: the locator, the air-quality request and its reply.
GetAqiRequest ==
    /\ pc = "aqi_start"
    /\ Feed(city, lat, lon) # None
    /\ calls' = Append(calls, AqiCall(Feed(city, lat, lon)[1]))
    /\ \E a \in AqiResponses : aqi_data' = a
    /\ pc' = "aqi_called"
    /\ UNCHANGED <<city, geo_data, weather_data, lat, lon, weather, aqi, response>>

\* Line 52 on a status-ok reply without `data`: get_aqi raises.
GetAqiRaise ==
    /\ pc = "aqi_called"
    /\ AqiRaises(aqi_data)
    /\ pc' = "raised"
    /\ UNCHANGED <<city, geo_data, weather_data, aqi_data, lat, lon, weather, aqi, calls, response>>

\* Lines 49-59: the snapshot, or None on a reply that is not ok.
GetAqiReturn ==
    /\ pc = "aqi_called"
    /\ ~AqiRaises(aqi_data)
    /\ aqi' = AqiSnapshot(aqi_data)
    /\ pc' = "returned"
    /\ UNCHANGED <<city, geo_data, weather_data, aqi_data, lat, lon, weather, calls, response>>

NextAqi ==
    \/ GetAqiNoLocator
    \/ GetAqiRequest
    \/ GetAqiRaise
    \/ GetAqiReturn

SpecAqi == InitAqi /\ [][NextAqi]_vars

(***************************************************************************)
(* Properties.  None of them is stated with the operators that model the   *)
(* code's conditions: each spells out the inputs and the expected result.  *)
(***************************************************************************)
Blank(c) == c # None /\ \A i \in DOMAIN c[1] : c[1][i] = " "
HasCity(c) == c # None /\ c[1] # <<>>
Resolved(g) == g.kind = "list" /\ g.items # <<>>
Err400 == [status |-> 400, body |-> [error |-> "City parameter is required"]]
Err404 == [status |-> 404, body |-> [error |-> "City not found"]]

\* A weather reply with every field get_weather reads.
WeatherComplete(w) ==
    /\ w.main # None
    /\ w.main[1].temp # None
    /\ w.main[1].humidity # None
    /\ w.weather # None
    /\ w.weather[1] # <<>>
    /\ w.weather[1][1].description # None

\* An air-quality reply with status ok and a data block.
AqiComplete(a) == a.status = Some("ok") /\ a.data # None

\* C1 as stated: a request whose city is missing, empty or whitespace-only is
\* answered 400 with the body {"error": "City parameter is required"}.
C1_BlankCityIs400 ==
    (pc = "done" /\ (city = None \/ Blank(city))) => response = Err400

\* C1 amended: a request whose city is missing or empty is answered 400 with
\* the body {"error": "City parameter is required"}.
C1_MissingOrEmptyCityIs400 ==
    (pc = "done" /\ (city = None \/ city = Some(<<>>))) => response = Err400

C1_Witness == pc = "done" /\ city = Some(<<>>) /\ response = Err400

\* C2: when the geocoding call of a request with a non-empty city returns an
\* empty result set, the geocoding call stays the request's only upstream
\* call and the response is 404 {"error": "City not found"}.
C2_NoMatchIs404GeocodingOnly ==
    (HasCity(city) /\ Len(calls) >= 1 /\ geo_data.kind = "list" /\ geo_data.items = <<>>)
        => /\ calls = <<[api |-> "geocoding", arg |-> city[1]]>>
           /\ pc \in {"geocoded", "done"}
           /\ pc = "done" => response = Err404

C2_Witness ==
    /\ pc = "done"
    /\ HasCity(city)
    /\ geo_data.kind = "list" /\ geo_data.items = <<>>
    /\ Len(calls) = 1
    /\ response = Err404

\* C3 as stated, on requests whose weather and air-quality replies are well
\* formed: the response is 404 only when geocoding gave no candidate, and
\* with a candidate, whatever its latitude and longitude (0 included), the
\* air-quality call is made with those coordinates and the response is 200.
C3_AnyCandidateIs200 ==
    (pc = "done" /\ HasCity(city) /\ Resolved(geo_data)
       /\ (Len(calls) >= 2 => WeatherComplete(weather_data))
       /\ (Len(calls) >= 3 => AqiComplete(aqi_data)))
        => /\ response.status # 404
           /\ response.status = 200
           /\ Len(calls) = 3
           /\ calls[3] = [api |-> "aqi",
                          arg |-> <<"geo", geo_data.items[1].lat, geo_data.items[1].lon>>]

\* C4 as stated: whatever the upstream replies are, the request ends with the
\* 400 error body, the 404 error body or the 200 merged document.
C4_NoExceptionEscapes ==
    pc = "done"
        => \/ response = Err400
           \/ response = Err404
           \/ /\ response.status = 200
              /\ DOMAIN response.body = {"city", "weather_data", "aqi_data"}

\* C5 as stated: once geocoding gave coordinates the response is 200 in all
\* four combinations of weather present / absent and air quality present /
\* absent; without `main` weather_data is {} and aqi_data is what get_aqi
\* returned; with a status other than ok aqi_data is {} and weather_data is
\* the weather snapshot.
C5_IndependentlyOptional ==
    (pc = "done" /\ HasCity(city) /\ Resolved(geo_data)
       /\ (Len(calls) >= 2 => (WeatherComplete(weather_data) \/ weather_data.main = None))
       /\ (Len(calls) >= 3 => (AqiComplete(aqi_data) \/ aqi_data.status # Some("ok"))))
        => /\ response.status = 200
           /\ weather_data.main = None
                => /\ response.body.weather_data = EmptyObj
                   /\ response.body.aqi_data = (IF aqi = None THEN EmptyObj ELSE aqi[1])
           /\ aqi_data.status # Some("ok")
                => /\ response.body.aqi_data = EmptyObj
                   /\ response.body.weather_data =
                        (IF weather_data.main = None THEN EmptyObj
                         ELSE [temperature |-> weather_data.main[1].temp[1],
                               humidity |-> weather_data.main[1].humidity[1],
                               weather |-> weather_data.weather[1][1].description[1]])

\* C6 as stated: get_aqi uses the locator geo:<lat>;<lon> when lat and lon are
\* both given, whatever their values; else the bare city name when one is
\* given; else it returns None without any upstream call.
C6_LocatorSelection ==
    pc # "aqi_start"
        => IF lat # None /\ lon # None
           THEN calls = <<[api |-> "aqi", arg |-> <<"geo", lat[1], lon[1]>>]>>
           ELSE IF HasCity(city)
           THEN calls = <<[api |-> "aqi", arg |-> <<"name", city[1]>>]>>
           ELSE calls = <<>> /\ pc = "returned" /\ aqi = None

\* C7 as stated: for a status-ok reply, pollutants has exactly the codes whose
\* entry carries a value, each mapped to that value; an entry without a value
\* has no key.
C7_MissingValuesOmitted ==
    (pc = "returned" /\ Len(calls) = 1 /\ aqi_data.status = Some("ok"))
        => /\ aqi # None
           /\ LET iaqi == IF aqi_data.data[1].iaqi = None THEN EmptyObj
                          ELSE aqi_data.data[1].iaqi[1]
                  valued == {k \in DOMAIN iaqi : iaqi[k].v # None}
              IN /\ DOMAIN aqi[1].pollutants = valued
                 /\ \A k \in valued : aqi[1].pollutants[k] = iaqi[k].v

\* C8 as stated: a request with a non-empty city, geocoded coordinates, a
\* weather reply with `main` and a status-ok air-quality reply is answered
\* 200 with a body of exactly the keys city, weather_data and aqi_data: city
\* is the parameter, weather_data is {temperature: main.temp, humidity:
\* main.humidity, weather: weather[0].description} and aqi_data is {aqi_us:
\* data.aqi, dominant_pollutant: data.dominentpol, pollutants: each iaqi
\* code -> its v}.
C8_MergedDocument ==
    (pc = "done" /\ HasCity(city) /\ Resolved(geo_data)
       /\ weather_data.main # None
       /\ (Len(calls) >= 3 => aqi_data.status = Some("ok")))
        => /\ response.status = 200
           /\ response.body =
                [city |-> city[1],
                 weather_data |->
                     [temperature |-> weather_data.main[1].temp[1],
                      humidity |-> weather_data.main[1].humidity[1],
                      weather |-> weather_data.weather[1][1].description[1]],
                 aqi_data |->
                     [aqi_us |-> aqi_data.data[1].aqi,
                      dominant_pollutant |-> aqi_data.data[1].dominentpol,
                      pollutants |->
                          IF aqi_data.data[1].iaqi = None THEN EmptyObj
                          ELSE [k \in DOMAIN aqi_data.data[1].iaqi[1] |->
                                  aqi_data.data[1].iaqi[1][k].v]]]

\* C9: a request whose city is missing or empty never makes an upstream call,
\* before or after its 400 response.
C9_NoCityNoUpstreamCall ==
    (city = None \/ city = Some(<<>>)) => calls = <<>>

C9_Witness == pc = "done" /\ city = None /\ response.status = 400 /\ calls = <<>>

\* C10: the upstream calls of a request are geocoding, weather, air quality in
\* that order, each at most once; the weather call follows a non-empty
\* geocoding result and carries the first candidate's coordinates; the
\* air-quality call carries the geo locator of those same coordinates, never
\* the city name.
C10_CallOrderAndLocator ==
    /\ Len(calls) <= 3
    /\ \A i \in DOMAIN calls : calls[i].api = <<"geocoding", "weather", "aqi">>[i]
    /\ Len(calls) >= 2
         => /\ Resolved(geo_data)
            /\ calls[2].arg = <<geo_data.items[1].lat, geo_data.items[1].lon>>
    /\ Len(calls) >= 3
         => calls[3].arg = <<"geo", geo_data.items[1].lat, geo_data.items[1].lon>>

C10_Witness ==
    /\ pc = "done"
    /\ Len(calls) = 3
    /\ calls[3].arg = <<"geo", geo_data.items[1].lat, geo_data.items[1].lon>>

====
